---------------------------- MODULE Spec2Model ----------------------------
(***************************************************************************)
(* MWISSolver (graph generator, greedy independent-set heuristic and the   *)
(* page that runs them), ShorSimulator (calculateFactors and the page that *)
(* runs it), BenchmarkManager and the debounce utility of the dashboard    *)
(* scripts.                                                                *)
(*                                                                         *)
(* Specifications.  SpecCreate, SpecSolve and SpecFactor run createGraph,  *)
(* findMWISSolution and calculateFactors on their own, on inputs drawn in  *)
(* the initial state.  SpecPage, SpecShor and SpecBench are the pages of   *)
(* MWISSolver, ShorSimulator and BenchmarkManager: event handlers, timer   *)
(* callbacks and the continuations of the async methods, one action each;  *)
(* a continuation runs as the next job after the callback that resolved    *)
(* its promise, before any other handler.  SpecDebounce is the function    *)
(* debounce returns, its timer and a clock.                                *)
(*                                                                         *)
(* Numbers.  Math.random() is drawn from the grid k / 2^RandBits,          *)
(* k in 0 .. 2^RandBits - 1, and is stored as k.  Every number the         *)
(* modelled code computes from such draws (a weight, the walk variable r   *)
(* of the scale-free branch) is a multiple of 2^-RandBits that a double    *)
(* holds exactly, so a number is stored as the integer count of units of   *)
(* 2^-RandBits (One is 1.0) and the arithmetic is exact.  A score, the     *)
(* quotient weight / (degree + 1), is kept as the pair of its numerator    *)
(* and divisor, and two scores are compared by cross-multiplication.       *)
(*                                                                         *)
(* A graph is [nodes |-> sequence of [id, weight], edges |-> sequence of   *)
(* <<u, v>>]; node identifiers are 0-based as in the source, so the node   *)
(* with identifier i is nodes[i + 1].  The x, y and radius fields of a     *)
(* node are rendering data that no modelled computation reads; their       *)
(* random draws are consumed (they shift the position of later draws) but  *)
(* the fields are not stored.                                              *)
(***************************************************************************)
EXTENDS Integers, Sequences, FiniteSets, TLC

VARIABLES
    pc,          \* "input": inputs drawn; "generated": createGraph returned;
                 \* "solved": findMWISSolution returned; in the page's event
                 \* loop "idle": no continuation is queued, "resolved": the
                 \* promise of simulateMWISSolution is resolved and the rest
                 \* of solveMWIS is the next job to run (likewise
                 \* simulateFactorization and runFactorization),
                 \* "resolvedRSA": the promise of simulateRSABreaking is
                 \* resolved and the rest of demoRSABreaking is the next job;
                 \* "factored": calculateFactors returned
    args,        \* the arguments of the createGraph call, [n, p, type, rnd]
    graph,       \* this.graph
    selection,   \* the array returned by the last findMWISSolution call
    previous,    \* the array returned by the call before it, on the same graph
    totalWeight, \* calculateTotalWeight of that array
    thrown,      \* the exception raised by the last call, "none" if it returned
    visits,      \* the calls of the forEach callback of the last
                 \* findMWISSolution call, in order
    solution,    \* this.solution
    timers,      \* the pending setTimeout callbacks, oldest first: of
                 \* simulateMWISSolution, the algorithm argument each has
                 \* captured; of ShorSimulator, the callback, its delay and
                 \* the N it computes with
    shown,       \* what the results element of the page shows (of
                 \* BenchmarkManager: the blocks it holds, in order)
    entered,     \* the value of the number-to-factor input, parsed
    number,      \* the N calculateFactors was called with
    factors,     \* the array calculateFactors returned
    circuit,     \* the number the circuit-info fields were computed for
    plotted,     \* the number the visualization was plotted for
    shownLatest, \* history: the results element of ShorSimulator was last
                 \* written on behalf of the most recently issued request
    resolvedLatest, \* history: the request whose promise is resolved is
                 \* the most recently issued one
    latestPending, \* history: the timer of the most recently issued
                 \* request is pending (it is then the last of timers)
    benchType,   \* the value of the benchmark-type select
    benchmarkData, \* this.benchmarkData of BenchmarkManager
    charts,      \* the data the charts and the table were last filled from
    awaited,     \* the type argument of the runBenchmark call whose promise
                 \* is resolved, "none" if there is none
    clock,       \* the time, in ticks
    wait,        \* the wait argument of debounce, in ticks
    timeout,     \* the pending timer of the debounced function, if any:
                 \* its due time and the arguments its closure has captured
    lastCall,    \* history: time and arguments of the most recent call of
                 \* the debounced function, and the arguments of the first
                 \* call of its burst
    invoked,     \* history: the invocations of func since the current burst
                 \* began, each with its time and arguments
    closed       \* history: of the burst before the current one, the
                 \* arguments of its first and last call, its invocations
                 \* of func, and whether its timer was pending when the
                 \* next burst began

vars == <<pc, args, graph, selection, previous, totalWeight, thrown,
          visits, solution, timers, shown,
          entered, number, factors, circuit, plotted,
          shownLatest, resolvedLatest, latestPending,
          benchType, benchmarkData, charts, awaited,
          clock, wait, timeout, lastCall, invoked, closed>>

\* null where a graph (a record) is expected, and where an array of node
\* identifiers is expected: values of the same kind as the ones they stand in
\* for, which no call returns.
NULL == [null |-> TRUE]
NoSelection == <<-1>>

\* ------------------------------------------------------------------ bounds

RandBits == 4
MaxNodes == 5
MaxInputNodes == 3
MaxInputEdges == 3

\* --------------------------------------------------------------- numbers

RECURSIVE Pow2(_)
Pow2(e) == IF e = 0 THEN 1 ELSE 2 * Pow2(e - 1)

\* Math.random() ranges over k / RandRange, k in 0 .. RandRange - 1.
RandRange == Pow2(RandBits)
RandomValues == 0 .. (RandRange - 1)

\* 1.0 and 0.5 in units of 2^-RandBits.
One == RandRange
Half == One \div 2

\* ------------------------------------------------------------ createGraph

\* const k = 3 of the regular topology.
RegularK == 3
\* const m0 = 3 and const m = 2 of the scale-free topology.
ScaleFreeM0 == 3
ScaleFreeM == 2
\* Math.random() is called three times per node: x, y, weight.
DrawsPerNode == 3

\* weight: Math.random() * 2 + 0.5, r the value of Math.random().
nodeWeight(r) == r * 2 + Half

\* The node loop: node i takes the third of its three draws as its weight.
createNodes(n, rnd) ==
    [i \in 1..n |-> [id |-> i - 1,
                     weight |-> nodeWeight(rnd[DrawsPerNode * (i - 1) + 3])]]

\* for (i = from; i < n; i++) for (j = i + 1; j < n; j++): the pairs <<i, j>>
\* in loop order.
RECURSIVE PairsFrom(_, _, _)
PairsFrom(i, j, n) ==
    IF i >= n THEN <<>>
    ELSE IF j >= n THEN PairsFrom(i + 1, i + 2, n)
    ELSE <<<<i, j>>>> \o PairsFrom(i, j + 1, n)

\* regularEdges with the neighbour computed from 1 instead of the loop
\* variable j: (i + 1) % n, k times.
regularEdgesSameNeighbour(n) ==
    [e \in 1..(RegularK * n) |->
        LET i == (e - 1) \div RegularK
        IN  <<i, (i + 1) % n>>]

\* regularEdges with the inner loop test j < k: k - 1 entries per node.
regularEdgesShortLoop(n) ==
    [e \in 1..((RegularK - 1) * n) |->
        LET i == (e - 1) \div (RegularK - 1)
            j == ((e - 1) % (RegularK - 1)) + 1
        IN  <<i, (i + j) % n>>]

\* type === 'regular': node i is joined to (i + j) % n for j = 1 .. k.
regularEdges(n) ==
    [e \in 1..(RegularK * n) |->
        LET i == (e - 1) \div RegularK
            j == ((e - 1) % RegularK) + 1
        IN  <<i, (i + j) % n>>]

\* The number of entries of edges that name node u.
RECURSIVE EndpointCount(_, _)
EndpointCount(edges, u) ==
    IF edges = <<>> THEN 0
    ELSE (IF Head(edges)[1] = u THEN 1 ELSE 0)
         + (IF Head(edges)[2] = u THEN 1 ELSE 0)
         + EndpointCount(Tail(edges), u)

\* degrees = new Array(i).fill(0), then counted over the edges so far.
degreesBelow(edges, i) == [u \in 0..(i - 1) |-> EndpointCount(edges, u)]

RECURSIVE SumTo(_, _)
SumTo(f, hi) == IF hi < 0 THEN 0 ELSE f[hi] + SumTo(f, hi - 1)

\* preferentialWalk begun one node late (let selected = 1).
RECURSIVE preferentialWalkFromNext(_, _, _, _)
preferentialWalkFromNext(r, selected, degrees, i) ==
    IF selected + 1 < i /\ r > degrees[selected + 1] * One
    THEN preferentialWalkFromNext(r - degrees[selected + 1] * One,
                                  selected + 1, degrees, i)
    ELSE selected + 1

\* while (r > degrees[selected]) { r -= degrees[selected]; selected++; }
\* r is a float, a degree an integer; past the end of the array the
\* comparison is with undefined, which is false and ends the loop.
RECURSIVE preferentialWalk(_, _, _, _)
preferentialWalk(r, selected, degrees, i) ==
    IF selected < i /\ r > degrees[selected] * One
    THEN preferentialWalk(r - degrees[selected] * One, selected + 1, degrees, i)
    ELSE selected

\* type === 'scale-free', the loop over the nodes i = from .. n - 1; the draws
\* of node i follow those of the nodes and of the earlier attachments.
RECURSIVE attachFrom(_, _, _, _)
attachFrom(i, n, edges, rnd) ==
    IF i >= n THEN edges
    ELSE LET degrees == degreesBelow(edges, i)
             totalDegree == SumTo(degrees, i - 1)
             base == DrawsPerNode * n + ScaleFreeM * (i - ScaleFreeM0)
             added == [j \in 1..ScaleFreeM |->
                          <<i, preferentialWalk(rnd[base + j] * totalDegree,
                                                0, degrees, i)>>]
         IN  attachFrom(i + 1, n, edges \o added, rnd)

scaleFreeEdges(n, rnd) ==
    attachFrom(ScaleFreeM0, n, PairsFrom(0, 1, ScaleFreeM0), rnd)

\* Math.random() < p, p in tenths.
randomLess(r, p) == 10 * r < p * RandRange

\* The Erdos-Renyi branch: one draw per pair, in loop order.
randomEdges(n, p, rnd) ==
    LET pairs == PairsFrom(0, 1, n)
        base == DrawsPerNode * n
        upTo[t \in 0..Len(pairs)] ==
            IF t = 0 THEN <<>>
            ELSE IF randomLess(rnd[base + t], p) THEN Append(upTo[t - 1], pairs[t])
            ELSE upTo[t - 1]
    IN  upTo[Len(pairs)]

createEdges(n, p, type, rnd) ==
    IF type = "regular" THEN regularEdges(n)
    ELSE IF type = "scale-free" THEN scaleFreeEdges(n, rnd)
    ELSE randomEdges(n, p, rnd)

createGraph(n, p, type, rnd) ==
    [nodes |-> createNodes(n, rnd), edges |-> createEdges(n, p, type, rnd)]

\* ------------------------------------------------------- findMWISSolution

\* nodeDegrees without degrees[v]++: only the first endpoint of an entry is
\* counted.
nodeDegreesFirstEndpoint(g) ==
    [i \in 0..(Len(g.nodes) - 1) |->
        Cardinality({ e \in DOMAIN g.edges : g.edges[e][1] = i })]

\* degrees[i] for the identifiers of the nodes: the entries of the edge list
\* that name i.  (An entry naming no node makes degrees[u]++ store NaN in a
\* slot that nodes.map never reads; nothing is thrown.)
nodeDegrees(g) ==
    [i \in 0..(Len(g.nodes) - 1) |-> EndpointCount(g.edges, i)]

\* nodes.map((node, i) => ({id: i, score: node.weight / (degrees[i] + 1)})):
\* the score is weight / div.
nodeScores(g) ==
    LET degrees == nodeDegrees(g)
    IN  [i \in 1..Len(g.nodes) |->
            [id |-> i - 1, weight |-> g.nodes[i].weight, div |-> degrees[i - 1] + 1]]

\* compareScores with the operands exchanged, a.score - b.score: an
\* ascending sort.
compareScoresAscending(a, b) == a.weight * b.div - b.weight * a.div

\* The comparator (a, b) => b.score - a.score: the sign of its result is the
\* sign of b.weight / b.div - a.weight / a.div, the divisors being positive.
compareScores(a, b) == b.weight * a.div - a.weight * b.div

\* comesFirst for a sort that is not stable: elements the comparator calls
\* equal may be left in either order.
comesFirstUnstable(arr, i, j) == compareScores(arr[i], arr[j]) < 0

\* Array.prototype.sort's contract for the pair at positions i < j of the
\* array it is given: the element at j must come first if the comparator says
\* so, the element at i must come first if the comparator says so or calls
\* them equal (the sort is stable).
comesFirst(arr, i, j) ==
    \/ compareScores(arr[i], arr[j]) < 0
    \/ compareScores(arr[i], arr[j]) = 0 /\ i < j

\* The arrays nodeScores.sort(...) may leave, the positions in left still to
\* be placed: the next element is one that no other must precede.
RECURSIVE sortedFrom(_, _)
sortedFrom(arr, left) ==
    IF left = {} THEN {<<>>}
    ELSE UNION { { <<arr[i]>> \o rest : rest \in sortedFrom(arr, left \ {i}) } :
                 i \in { i \in left : \A j \in left \ {i} : ~comesFirst(arr, j, i) } }

sortOutcomes(arr) == sortedFrom(arr, DOMAIN arr)

\* neighboursOf without the second test, if (v === id) conflicts.add(u).
neighboursOfOneWay(edges, id) ==
    { edges[e][2] : e \in { e \in DOMAIN edges : edges[e][1] = id } }

\* The identifiers that the edge list joins to id: conflicts.add(v) for an
\* entry [id, v], conflicts.add(u) for an entry [u, id].
neighboursOf(edges, id) ==
    { edges[e][2] : e \in { e \in DOMAIN edges : edges[e][1] = id } }
    \cup { edges[e][1] : e \in { e \in DOMAIN edges : edges[e][2] = id } }

Range(seq) == { seq[i] : i \in DOMAIN seq }

\* selectStep with the test made on selected instead of conflicts,
\* if (!selected.has(nodeId)).
selectStepTestSelected(st, id, edges) ==
    IF id \notin Range(st.selected)
    THEN [selected |-> Append(st.selected, id),
          conflicts |-> st.conflicts \cup neighboursOf(edges, id)]
    ELSE st

\* One call of the forEach callback: selected is a Set (kept in insertion
\* order), conflicts a Set.
selectStep(st, id, edges) ==
    IF id \notin st.conflicts
    THEN [selected |-> IF id \in Range(st.selected) THEN st.selected
                       ELSE Append(st.selected, id),
          conflicts |-> st.conflicts \cup neighboursOf(edges, id)]
    ELSE st

\* selectFrom as a loop that is left at the first node found in conflicts
\* (break in place of the skipped iteration).
RECURSIVE selectFromStopAtConflict(_, _, _, _)
selectFromStopAtConflict(st, sorted, k, edges) ==
    IF k > Len(sorted) \/ sorted[k].id \in st.conflicts THEN st
    ELSE selectFromStopAtConflict(selectStep(st, sorted[k].id, edges),
                                  sorted, k + 1, edges)

\* nodeScores.forEach over the sorted array, from position k on.
RECURSIVE selectFrom(_, _, _, _)
selectFrom(st, sorted, k, edges) ==
    IF k > Len(sorted) THEN st
    ELSE selectFrom(selectStep(st, sorted[k].id, edges), sorted, k + 1, edges)

\* greedySelect with the loop ended one element early.
greedySelectSkipLast(sorted, edges) ==
    selectFrom([selected |-> <<>>, conflicts |-> {}],
               SubSeq(sorted, 1, Len(sorted) - 1), 1, edges)

greedySelect(sorted, edges) ==
    selectFrom([selected |-> <<>>, conflicts |-> {}], sorted, 1, edges)

\* nodeScores.forEach over the sorted array from position k on, as the calls
\* of its callback: the identifier each was called with, the conflicts set
\* as it found it, and the selected and conflicts sets as it left them.
RECURSIVE visitFrom(_, _, _, _)
visitFrom(st, sorted, k, edges) ==
    IF k > Len(sorted) THEN <<>>
    ELSE LET left == selectStep(st, sorted[k].id, edges)
         IN  << [id |-> sorted[k].id, found |-> st.conflicts,
                 selected |-> left.selected, conflicts |-> left.conflicts] >>
             \o visitFrom(left, sorted, k + 1, edges)

\* forEachVisits with the loop ended one element early.
forEachVisitsSkipLast(sorted, edges) ==
    visitFrom([selected |-> <<>>, conflicts |-> {}],
              SubSeq(sorted, 1, Len(sorted) - 1), 1, edges)

\* The calls of the forEach callback of one run, in order.
forEachVisits(sorted, edges) ==
    visitFrom([selected |-> <<>>, conflicts |-> {}], sorted, 1, edges)

\* nodesAfterSort had the sort been applied to this.graph.nodes itself
\* (const nodes = this.graph.nodes, sorted by the scores).
nodesSortedInPlace(g, sorted) ==
    [k \in 1..Len(sorted) |-> g.nodes[sorted[k].id + 1]]

\* const nodes = [...this.graph.nodes] and nodes.map(...) make new arrays,
\* and sort permutes the array map returned: this.graph.nodes is left as it
\* was, whatever order the sort leaves.  This operator is the array
\* this.graph.nodes after the call.
nodesAfterSort(g, sorted) == g.nodes

\* findMWISRuns with the argument read: for 'classical' the sorted array is
\* walked from its end.
findMWISRunsByAlgorithm(g, alg) ==
    { LET order == IF alg = "classical"
                   THEN [k \in 1..Len(sorted) |-> sorted[Len(sorted) + 1 - k]]
                   ELSE sorted
      IN  [solution |-> greedySelect(order, g.edges).selected,
           visits |-> forEachVisits(order, g.edges),
           nodes |-> nodesAfterSort(g, order)] :
        sorted \in sortOutcomes(nodeScores(g)) }

\* The runs findMWISSolution may make on the graph g, one per array the sort
\* may leave: the array returned, the calls of the forEach callback, and
\* this.graph.nodes after the call.  The algorithm argument is not read.
findMWISRuns(g, alg) ==
    { [solution |-> greedySelect(sorted, g.edges).selected,
       visits |-> forEachVisits(sorted, g.edges),
       nodes |-> nodesAfterSort(g, sorted)] :
        sorted \in sortOutcomes(nodeScores(g)) }

\* The arrays findMWISSolution may return for the graph g.
findMWISSolution(g, alg) == { run.solution : run \in findMWISRuns(g, alg) }

\* solution.reduce((sum, nodeId) => sum + this.graph.nodes[nodeId].weight, 0)
RECURSIVE calculateTotalWeight(_, _)
calculateTotalWeight(sol, g) ==
    IF sol = <<>> THEN 0
    ELSE calculateTotalWeight(SubSeq(sol, 1, Len(sol) - 1), g)
         + g.nodes[sol[Len(sol)] + 1].weight

\* ------------------------------------------------------------ the inputs

GraphTypes == {"random", "regular", "scale-free"}

\* Edge probabilities in tenths: -0.5, 0, 0.5, 1, 1.5.
PValues == {-5, 0, 5, 10, 15}

\* The longest run of draws one createGraph call makes.
StreamLen == DrawsPerNode * MaxNodes + (MaxNodes * (MaxNodes - 1)) \div 2

\* The values Math.random() returns during one call, in call order: the
\* arithmetic progressions over the random source's range.
RandomStreams ==
    { [i \in 1..StreamLen |-> (a + b * (i - 1)) % RandRange] :
        a \in RandomValues, b \in RandomValues }

CreateArgs ==
    [n : 0..MaxNodes, p : PValues, type : GraphTypes, rnd : RandomStreams]

\* The values of the algorithm select box, and one that is none of them.
Algorithms == {"qaoa", "qft-walk", "hybrid", "classical", "other"}

\* The values the runs are made with: one that displayResults has a name
\* for, and one it has none for.
PageAlgorithms == {"classical", "other"}

\* Node weights of a hand-made graph: 1.0 and 5.0.
InputWeights == {One, 5 * One}

\* The entries of a hand-made edge list over n nodes: pairs <<u, v>>, u <= v,
\* of the identifiers of the nodes and of n, which names no node (u = v is a
\* self-loop).
InputPairs(n) == { pr \in (0..n) \X (0..n) : pr[1] <= pr[2] }

PairCode(pr, n) == pr[1] * (n + 1) + pr[2]

\* Edge lists of at most MaxInputEdges entries (repeats allowed), listed in
\* the order of their endpoints.
InputEdgeLists(n) ==
    UNION { { es \in [1..m -> InputPairs(n)] :
                \A e \in 1..(m - 1) : PairCode(es[e], n) <= PairCode(es[e + 1], n) } :
            m \in 0..MaxInputEdges }

InputGraph(w, es) ==
    [nodes |-> [i \in DOMAIN w |-> [id |-> i - 1, weight |-> w[i]]], edges |-> es]

\* The path 0 - 1 - 2 - 3 with the weights 1.0, 5.0, 1.0, 1.0.
PathGraph ==
    [nodes |-> << [id |-> 0, weight |-> One], [id |-> 1, weight |-> 5 * One],
                  [id |-> 2, weight |-> One], [id |-> 3, weight |-> One] >>,
     edges |-> << <<0, 1>>, <<1, 2>>, <<2, 3>> >>]

\* The variables of ShorSimulator, and their values where it is not
\* modelled.
shorVars == <<entered, number, factors, circuit, plotted,
              shownLatest, resolvedLatest, latestPending>>

NoShor ==
    /\ entered = 0
    /\ number = 0
    /\ factors = <<>>
    /\ circuit = <<>>
    /\ plotted = <<>>
    /\ shownLatest = TRUE
    /\ resolvedLatest = FALSE
    /\ latestPending = FALSE

\* The variables of BenchmarkManager, and their values where it is not
\* modelled.
benchVars == <<benchType, benchmarkData, charts, awaited>>

NoBench ==
    /\ benchType = "none"
    /\ benchmarkData = <<>>
    /\ charts = <<>>
    /\ awaited = "none"

\* The variables of the debounced function, and their values where it is
\* not modelled.
debounceVars == <<clock, wait, timeout, lastCall, invoked, closed>>

NoDebounce ==
    /\ clock = 0
    /\ wait = 0
    /\ timeout = <<>>
    /\ lastCall = <<>>
    /\ invoked = <<>>
    /\ closed = <<>>

\* The variables of the page, and their values where no page is modelled.
pageVars == <<visits, solution, timers, shown>>

NoPage ==
    /\ visits = <<>>
    /\ solution = NoSelection
    /\ timers = <<>>
    /\ shown = "none"
    /\ NoShor
    /\ NoBench
    /\ NoDebounce

\* ------------------------------------------- the graph generator on its own

InitCreate ==
    /\ pc = "input"
    /\ args \in CreateArgs
    /\ graph = NULL
    /\ selection = NoSelection
    /\ previous = NoSelection
    /\ totalWeight = 0
    /\ thrown = "none"
    /\ NoPage

\* One createGraph call; the function has no throw and no early return.
CreateGraph ==
    /\ pc = "input"
    /\ graph' = createGraph(args.n, args.p, args.type, args.rnd)
    /\ pc' = "generated"
    /\ thrown' = "none"
    /\ UNCHANGED <<args, selection, previous, totalWeight, pageVars, shorVars, benchVars, debounceVars>>

NextCreate == CreateGraph

SpecCreate == InitCreate /\ [][NextCreate]_vars

\* -------------------------------------------------- the heuristic on its own

InitSolve ==
    /\ pc = "input"
    /\ args = NULL
    /\ \/ \E n \in 0..MaxInputNodes :
            \E w \in [1..n -> InputWeights], es \in InputEdgeLists(n) :
               graph = InputGraph(w, es)
       \/ graph = PathGraph
    /\ selection = NoSelection
    /\ previous = NoSelection
    /\ totalWeight = 0
    /\ thrown = "none"
    /\ NoPage

\* One findMWISSolution call on this.graph followed by calculateTotalWeight
\* of its result, as the timer callback of simulateMWISSolution makes them;
\* neither has a throw or an early return.  It may be run again on the same
\* graph.
FindMWIS ==
    /\ pc \in {"input", "solved"}
    /\ \E alg \in PageAlgorithms :
         \E run \in findMWISRuns(graph, alg) :
            /\ selection' = run.solution
            /\ previous' = selection
            /\ totalWeight' = calculateTotalWeight(run.solution, graph)
            /\ visits' = run.visits
            /\ graph' = [graph EXCEPT !.nodes = run.nodes]
    /\ pc' = "solved"
    /\ thrown' = "none"
    /\ UNCHANGED <<args, solution, timers, shown, shorVars, benchVars, debounceVars>>

NextSolve == FindMWIS

SpecSolve == InitSolve /\ [][NextSolve]_vars

\* ------------------------------------------------- the page of MWISSolver

\* The solve requests that may be waiting for their timer at one time.
MaxPending == 2

\* const nodeCount = 10 and const edgeProbability = 0.3 (in tenths) of
\* generateRandomGraph, which the constructor calls.
InitialNodeCount == 10
InitialProbability == 3

\* The values Math.random() returns during one createGraph call of the page:
\* a few of the arithmetic progressions, long enough for the initial graph.
PageStreams ==
    { [i \in 1..(DrawsPerNode * InitialNodeCount
                  + (InitialNodeCount * (InitialNodeCount - 1)) \div 2) |->
          (a + b * (i - 1)) % RandRange] :
        a \in {1, RandRange \div 2}, b \in {3} }

\* What generateGraph reads from the node-count, edge-probability and
\* graph-type inputs, and the random values of its createGraph call.
GenerateArgs == [n : 0..MaxNodes, p : {5}, type : GraphTypes, rnd : PageStreams]

\* drawGraph reads node1.x and node2.x of this.graph.nodes[u] and
\* this.graph.nodes[v] for every edge [u, v]: a TypeError if some entry
\* names an identifier that no node has.
drawGraphThrows(g) ==
    \E e \in DOMAIN g.edges :
        \/ g.edges[e][1] \notin 0..(Len(g.nodes) - 1)
        \/ g.edges[e][2] \notin 0..(Len(g.nodes) - 1)

\* analyzeGraph: calculateSymmetryScore calls degrees.reduce((a, b) => a + b)
\* with no initial value, a TypeError on the empty array.  degrees has one
\* slot per node, and degrees[u]++ on an endpoint that names no node adds
\* slots up to u, so the array is empty only if there is no node and no
\* edge.
analyzeGraphThrows(g) == Len(g.nodes) = 0 /\ g.edges = <<>>

\* The state the constructor leaves: this.solution = null, and
\* generateRandomGraph has stored createGraph(10, 0.3, 'random').
InitPage ==
    /\ pc = "idle"
    /\ args = NULL
    /\ \E rnd \in PageStreams :
          graph = createGraph(InitialNodeCount, InitialProbability, "random", rnd)
    /\ selection = NoSelection
    /\ previous = NoSelection
    /\ totalWeight = 0
    /\ thrown = "none"
    /\ visits = <<>>
    /\ solution = NoSelection
    /\ timers = <<>>
    /\ shown = "none"
    /\ NoShor
    /\ NoBench
    /\ NoDebounce

\* generateGraph with this.solution = null left out.
GenerateGraphKeepSolution ==
    /\ pc = "idle"
    /\ \E a \in GenerateArgs :
          LET g == createGraph(a.n, a.p, a.type, a.rnd)
          IN  /\ graph' = g
              /\ thrown' = IF drawGraphThrows(g) \/ analyzeGraphThrows(g)
                            THEN "TypeError" ELSE "none"
    /\ UNCHANGED <<pc, args, selection, previous, totalWeight, visits,
                   solution, timers, shown, shorVars, benchVars, debounceVars>>

\* generateGraph, the handler of the generate button and of the graph-type
\* select: this.graph and this.solution are assigned before drawGraph and
\* analyzeGraph, whose TypeError nothing catches.  An event handler runs
\* only when no continuation is queued.
GenerateGraph ==
    /\ pc = "idle"
    /\ \E a \in GenerateArgs :
          LET g == createGraph(a.n, a.p, a.type, a.rnd)
          IN  /\ graph' = g
              /\ thrown' = IF drawGraphThrows(g) \/ analyzeGraphThrows(g)
                            THEN "TypeError" ELSE "none"
    /\ solution' = NoSelection
    /\ UNCHANGED <<pc, args, selection, previous, totalWeight, visits,
                   timers, shown, shorVars, benchVars, debounceVars>>

\* solveMWIS up to its await: this.graph is never null once the constructor
\* has run, so showLoading is called, the algorithm is read and
\* simulateMWISSolution sets its timer.
SolveMWIS ==
    /\ pc = "idle"
    /\ Len(timers) < MaxPending
    /\ \E alg \in PageAlgorithms : timers' = Append(timers, alg)
    /\ shown' = "loading"
    /\ thrown' = "none"
    /\ UNCHANGED <<pc, args, graph, selection, previous, totalWeight, visits,
                   solution, shorVars, benchVars, debounceVars>>

\* The timer callback of simulateMWISSolution (the timers have the same
\* delay, so the oldest fires first): findMWISSolution on this.graph as it
\* is now, calculateTotalWeight, resolve.
TimerCallback ==
    /\ pc = "idle"
    /\ timers # <<>>
    /\ \E run \in findMWISRuns(graph, Head(timers)) :
          /\ selection' = run.solution
          /\ totalWeight' = calculateTotalWeight(run.solution, graph)
          /\ visits' = run.visits
          /\ graph' = [graph EXCEPT !.nodes = run.nodes]
    /\ timers' = Tail(timers)
    /\ pc' = "resolved"
    /\ thrown' = "none"
    /\ UNCHANGED <<args, previous, solution, shown, shorVars, benchVars, debounceVars>>

\* The rest of solveMWIS, run as the next job once the promise is resolved:
\* displayResults stores result.solution and calls drawGraph, whose
\* TypeError the catch of solveMWIS turns into showError; without one the
\* results and the comparison chart are shown.  The result object is
\* dropped.
DisplayResults ==
    /\ pc = "resolved"
    /\ solution' = selection
    /\ shown' = IF drawGraphThrows(graph) THEN "error" ELSE "success"
    /\ selection' = NoSelection
    /\ totalWeight' = 0
    /\ visits' = <<>>
    /\ pc' = "idle"
    /\ thrown' = "none"
    /\ UNCHANGED <<args, graph, previous, timers, shorVars, benchVars, debounceVars>>

NextPage == GenerateGraph \/ SolveMWIS \/ TimerCallback \/ DisplayResults

SpecPage == InitPage /\ [][NextPage]_vars

\* ----------------------------------------------- ShorSimulator, factoring

\* The largest number calculateFactors is given.
MaxNumber == 2100

\* knownFactors with the entry of 561 mistyped, [3, 17].
knownFactorsMistyped ==
    (15 :> <<3, 5>>) @@ (21 :> <<3, 7>>) @@ (35 :> <<5, 7>>)
    @@ (143 :> <<11, 13>>) @@ (561 :> <<3, 17>>) @@ (2047 :> <<23, 89>>)

\* knownFactors with the pair of 15 stored larger factor first, [5, 3].
knownFactorsSwapped ==
    (15 :> <<5, 3>>) @@ (21 :> <<3, 7>>) @@ (35 :> <<5, 7>>)
    @@ (143 :> <<11, 13>>) @@ (561 :> <<3, 187>>) @@ (2047 :> <<23, 89>>)

\* const knownFactors = {15: [3, 5], ...}.
knownFactors ==
    (15 :> <<3, 5>>) @@ (21 :> <<3, 7>>) @@ (35 :> <<5, 7>>)
    @@ (143 :> <<11, 13>>) @@ (561 :> <<3, 187>>) @@ (2047 :> <<23, 89>>)

\* trialDivision with the loop test i < Math.sqrt(N).
RECURSIVE trialDivisionBelowRoot(_, _)
trialDivisionBelowRoot(N, i) ==
    IF i * i >= N THEN <<1, N>>
    ELSE IF N % i = 0 THEN <<i, N \div i>>
    ELSE trialDivisionBelowRoot(N, i + 1)

\* for (let i = 2; i <= Math.sqrt(N); i++) if (N % i === 0) return [i, N / i];
\* then return [1, N].  For the integers i and N of the model,
\* i <= Math.sqrt(N) is i * i <= N, and N / i is taken only where i
\* divides N.
RECURSIVE trialDivision(_, _)
trialDivision(N, i) ==
    IF i * i > N THEN <<1, N>>
    ELSE IF N % i = 0 THEN <<i, N \div i>>
    ELSE trialDivision(N, i + 1)

\* if (knownFactors[N]) return knownFactors[N]; otherwise trial division.
calculateFactors(N) ==
    IF N \in DOMAIN knownFactors THEN knownFactors[N] ELSE trialDivision(N, 2)

\* calculateFactors on its own: runFactorization passes it an integer that
\* is not less than 2.
InitFactor ==
    /\ pc = "input"
    /\ args = NULL
    /\ graph = NULL
    /\ selection = NoSelection
    /\ previous = NoSelection
    /\ totalWeight = 0
    /\ thrown = "none"
    /\ visits = <<>>
    /\ solution = NoSelection
    /\ timers = <<>>
    /\ shown = "none"
    /\ entered = 0
    /\ number \in 2..MaxNumber
    /\ factors = <<>>
    /\ circuit = <<>>
    /\ plotted = <<>>
    /\ shownLatest = TRUE
    /\ resolvedLatest = FALSE
    /\ latestPending = FALSE
    /\ NoBench
    /\ NoDebounce

\* One calculateFactors call; the function has no throw.
CalculateFactors ==
    /\ pc = "input"
    /\ factors' = calculateFactors(number)
    /\ pc' = "factored"
    /\ UNCHANGED <<args, graph, selection, previous, totalWeight, thrown,
                   pageVars, entered, number, circuit, plotted,
                   shownLatest, resolvedLatest, latestPending,
                   benchVars, debounceVars>>

NextFactor == CalculateFactors

SpecFactor == InitFactor /\ [][NextFactor]_vars

\* ------------------------------------------- the page of ShorSimulator

\* What parseInt may read from the number-to-factor input.
EnteredNumbers == {-1, 0, 1, 2, 4, 7, 15}

\* The message of the showError call of runFactorization.
GreaterThanOneMessage == "Please enter a number greater than 1"

\* The delays of the setTimeout calls of simulateFactorization and of
\* simulateRSABreaking, in milliseconds.
FactorizationDelay == 1000
RSADelay == 1500

\* The result simulateRSABreaking resolves with: p and q, and N = p * q.
RSAFactors == <<11, 13>>
RSAModulus == RSAFactors[1] * RSAFactors[2]

\* The timer simulateFactorization(N) sets, and the one simulateRSABreaking
\* sets.
factorizationTimeout(N) ==
    [callback |-> "simulateFactorization", delay |-> FactorizationDelay,
     N |-> N]

rsaTimeout ==
    [callback |-> "simulateRSABreaking", delay |-> RSADelay, N |-> RSAModulus]

\* Timers run in the order of their due times, and a timer set later with
\* the same or a longer delay is due later: the i-th pending timer can be
\* the next to run if every timer set before it has a longer delay (it was
\* set less than the difference of the delays after them).
canFire(ts, i) == \A j \in 1..(i - 1) : ts[j].delay > ts[i].delay

without(ts, i) == SubSeq(ts, 1, i - 1) \o SubSeq(ts, i + 1, Len(ts))

\* The state the constructor leaves: the elements as the document has them,
\* no timer set; the input holds some number.
InitShor ==
    /\ pc = "idle"
    /\ args = NULL
    /\ graph = NULL
    /\ selection = NoSelection
    /\ previous = NoSelection
    /\ totalWeight = 0
    /\ thrown = "none"
    /\ visits = <<>>
    /\ solution = NoSelection
    /\ timers = <<>>
    /\ shown = "none"
    /\ entered \in EnteredNumbers
    /\ number = 0
    /\ factors = <<>>
    /\ circuit = <<>>
    /\ plotted = <<>>
    /\ shownLatest = TRUE
    /\ resolvedLatest = FALSE
    /\ latestPending = FALSE
    /\ NoBench
    /\ NoDebounce

\* The handler of the input event of number-to-factor: the user has typed
\* a number, and updateCircuitInfo(), given no N, reads it from the input.
NumberInput ==
    /\ pc = "idle"
    /\ \E n \in EnteredNumbers :
          /\ entered' = n
          /\ circuit' = <<n>>
    /\ UNCHANGED <<args, graph, selection, previous, totalWeight, thrown,
                   pageVars, pc, number, factors, plotted,
                   shownLatest, resolvedLatest, latestPending,
                   benchVars, debounceVars>>

\* The handler of the change event of qubits-count-input:
\* updateCircuitInfo(), which reads the number from the input.
QubitsChange ==
    /\ pc = "idle"
    /\ circuit' = <<entered>>
    /\ UNCHANGED <<args, graph, selection, previous, totalWeight, thrown,
                   pageVars, pc, entered, number, factors, plotted,
                   shownLatest, resolvedLatest, latestPending,
                   benchVars, debounceVars>>

\* runFactorization with the test number < 1.
RunFactorizationBelowOne ==
    /\ pc = "idle"
    /\ IF entered < 1
       THEN /\ shown' = GreaterThanOneMessage
            /\ latestPending' = FALSE
            /\ UNCHANGED timers
       ELSE /\ Len(timers) < MaxPending
            /\ shown' = "loading"
            /\ timers' = Append(timers, factorizationTimeout(entered))
            /\ latestPending' = TRUE
    /\ shownLatest' = TRUE
    /\ UNCHANGED <<args, graph, selection, previous, totalWeight, thrown,
                   visits, solution, pc, entered, number, factors, circuit,
                   plotted, resolvedLatest, benchVars, debounceVars>>

\* runFactorization up to its return or its await: a number less than 2 is
\* answered by showError and nothing else; otherwise showLoading, and
\* simulateFactorization sets its timer for the number.  (The style element
\* showLoading appends to the document head is not kept.)
RunFactorization ==
    /\ pc = "idle"
    /\ IF entered < 2
       THEN /\ shown' = GreaterThanOneMessage
            /\ latestPending' = FALSE
            /\ UNCHANGED timers
       ELSE /\ Len(timers) < MaxPending
            /\ shown' = "loading"
            /\ timers' = Append(timers, factorizationTimeout(entered))
            /\ latestPending' = TRUE
    /\ shownLatest' = TRUE
    /\ UNCHANGED <<args, graph, selection, previous, totalWeight, thrown,
                   visits, solution, pc, entered, number, factors, circuit,
                   plotted, resolvedLatest, benchVars, debounceVars>>

\* demoRSABreaking up to its await: showLoading, and simulateRSABreaking
\* sets its timer.
DemoRSABreaking ==
    /\ pc = "idle"
    /\ Len(timers) < MaxPending
    /\ shown' = "loading"
    /\ timers' = Append(timers, rsaTimeout)
    /\ latestPending' = TRUE
    /\ shownLatest' = TRUE
    /\ UNCHANGED <<args, graph, selection, previous, totalWeight, thrown,
                   visits, solution, pc, entered, number, factors, circuit,
                   plotted, resolvedLatest, benchVars, debounceVars>>

\* The timer callback of simulateFactorization: calculateFactors(N),
\* resolve.
FactorizationTimer ==
    /\ pc = "idle"
    /\ \E i \in 1..Len(timers) :
          /\ timers[i].callback = "simulateFactorization"
          /\ canFire(timers, i)
          /\ number' = timers[i].N
          /\ factors' = calculateFactors(timers[i].N)
          /\ timers' = without(timers, i)
          /\ resolvedLatest' = (latestPending /\ i = Len(timers))
          /\ latestPending' = (latestPending /\ i # Len(timers))
    /\ pc' = "resolved"
    /\ UNCHANGED <<args, graph, selection, previous, totalWeight, thrown,
                   visits, solution, shown, entered, circuit, plotted,
                   shownLatest, benchVars, debounceVars>>

\* The rest of runFactorization, run as the next job once the promise is
\* resolved: displayResults, updateVisualization, updateCircuitInfo(number);
\* none of them throws.  The result object is dropped.
FactorizationShown ==
    /\ pc = "resolved"
    /\ shown' = "success"
    /\ plotted' = <<number>>
    /\ circuit' = <<number>>
    /\ number' = 0
    /\ factors' = <<>>
    /\ shownLatest' = resolvedLatest
    /\ resolvedLatest' = FALSE
    /\ pc' = "idle"
    /\ UNCHANGED <<args, graph, selection, previous, totalWeight, thrown,
                   visits, solution, timers, entered, latestPending,
                   benchVars, debounceVars>>

\* The timer callback of simulateRSABreaking: resolve with the fixed result.
RSATimer ==
    /\ pc = "idle"
    /\ \E i \in 1..Len(timers) :
          /\ timers[i].callback = "simulateRSABreaking"
          /\ canFire(timers, i)
          /\ number' = timers[i].N
          /\ timers' = without(timers, i)
          /\ resolvedLatest' = (latestPending /\ i = Len(timers))
          /\ latestPending' = (latestPending /\ i # Len(timers))
    /\ factors' = RSAFactors
    /\ pc' = "resolvedRSA"
    /\ UNCHANGED <<args, graph, selection, previous, totalWeight, thrown,
                   visits, solution, shown, entered, circuit, plotted,
                   shownLatest, benchVars, debounceVars>>

\* The rest of demoRSABreaking, run as the next job once the promise is
\* resolved: displayRSAResults writes the results element and calls
\* updateCircuitInfo(result.N); the visualization is not touched.
RSAShown ==
    /\ pc = "resolvedRSA"
    /\ shown' = "rsa success"
    /\ circuit' = <<number>>
    /\ number' = 0
    /\ factors' = <<>>
    /\ shownLatest' = resolvedLatest
    /\ resolvedLatest' = FALSE
    /\ pc' = "idle"
    /\ UNCHANGED <<args, graph, selection, previous, totalWeight, thrown,
                   visits, solution, timers, entered, plotted, latestPending,
                   benchVars, debounceVars>>

NextShor ==
    \/ NumberInput
    \/ QubitsChange
    \/ RunFactorization
    \/ DemoRSABreaking
    \/ FactorizationTimer
    \/ FactorizationShown
    \/ RSATimer
    \/ RSAShown

SpecShor == InitShor /\ [][NextShor]_vars

\* ------------------------------------------- the page of BenchmarkManager

\* The values of the benchmark-type select.
BenchmarkTypes == {"shor", "mwis", "both"}

\* The bit widths of generateShorBenchmarkData and the node counts of
\* generateMWISBenchmarkData.
ShorBits == <<4, 8, 16, 32, 64>>
MWISNodeCounts == <<5, 10, 15, 20, 25>>

\* v << 1 on a 32-bit integer: the low 30 bits move up by one and bit 30
\* becomes the sign bit.
shiftLeftOne(v) ==
    2 * (v % (2^30)) + (IF (v \div (2^30)) % 2 = 1 THEN (-(2^30)) * 2 ELSE 0)

\* v << k, 0 <= k < 32.
RECURSIVE shiftLeftBy(_, _)
shiftLeftBy(v, k) == IF k = 0 THEN v ELSE shiftLeftBy(shiftLeftOne(v), k - 1)

\* The operator << of the language: the left operand as a 32-bit integer,
\* shifted by the low five bits of the right operand.
shiftLeft(v, n) == shiftLeftBy(v, n % 32)

\* A row of benchmark data: its size label, kept as the text around the
\* number and the number, and its quantumComplexity.  The other three fields
\* (quantumTime, classicalTime, classicalComplexity) are quotients, powers
\* of e and of the square root of 2 that no modelled step reads; they are
\* not kept.
generateShorBenchmarkData ==
    [i \in DOMAIN ShorBits |->
        [size |-> [text |-> "N=", number |-> shiftLeft(1, ShorBits[i])],
         quantumComplexity |-> ShorBits[i] * ShorBits[i] * ShorBits[i]]]

generateMWISBenchmarkData ==
    [i \in DOMAIN MWISNodeCounts |->
        [size |-> [text |-> " nodes", number |-> MWISNodeCounts[i]],
         quantumComplexity |-> MWISNodeCounts[i] * MWISNodeCounts[i]]]

\* combineBenchmarkData: the rows of both, each relabelled 'Test <index + 1>'.
combineBenchmarkData(data) ==
    LET items == data.shor \o data.mwis
    IN  [i \in DOMAIN items |->
            [items[i] EXCEPT !.size = [text |-> "Test ", number |-> i]]]

\* type === 'both' ? this.benchmarkData.both : this.benchmarkData[type],
\* <<>> standing in for undefined where the property is absent.
datasetDefined(data, type) == type \in DOMAIN data

dataset(data, type) == IF datasetDefined(data, type) THEN data[type] ELSE <<>>

\* The state the constructor leaves: benchmarkData with the properties shor
\* and mwis, empty charts, the select at one of its values.  Here shown is
\* the sequence of the blocks the benchmark-results element holds, first
\* to last.
InitBench ==
    /\ pc = "idle"
    /\ args = NULL
    /\ graph = NULL
    /\ selection = NoSelection
    /\ previous = NoSelection
    /\ totalWeight = 0
    /\ thrown = "none"
    /\ visits = <<>>
    /\ solution = NoSelection
    /\ timers = <<>>
    /\ shown = <<>>
    /\ NoShor
    /\ benchType \in BenchmarkTypes
    /\ benchmarkData = [shor |-> generateShorBenchmarkData,
                        mwis |-> generateMWISBenchmarkData]
    /\ charts = <<>>
    /\ awaited = "none"
    /\ NoDebounce

\* The handler of the change event of benchmark-type: the select has taken
\* another value, and updateBenchmarkDisplay passes the dataset of that type
\* to updateTimeChart, whose first statement, data.map, throws a TypeError
\* on undefined; nothing catches it and nothing has been drawn by then.
UpdateBenchmarkDisplay ==
    /\ pc = "idle"
    /\ \E type \in BenchmarkTypes \ {benchType} :
          /\ benchType' = type
          /\ IF datasetDefined(benchmarkData, type)
             THEN /\ charts' = dataset(benchmarkData, type)
                  /\ thrown' = "none"
             ELSE /\ thrown' = "TypeError"
                  /\ UNCHANGED charts
    /\ UNCHANGED <<pc, args, graph, selection, previous, totalWeight, visits,
                   solution, timers, shown, shorVars, benchmarkData, awaited,
                   debounceVars>>

\* runBenchmark up to its await: the type is read, showLoading, and
\* simulateBenchmark sets its timer.
RunBenchmark ==
    /\ pc = "idle"
    /\ Len(timers) < MaxPending
    /\ timers' = Append(timers, benchType)
    /\ shown' = <<"loading">>
    /\ thrown' = "none"
    /\ UNCHANGED <<pc, args, graph, selection, previous, totalWeight, visits,
                   solution, shorVars, benchVars, debounceVars>>

\* The timer callback of simulateBenchmark (the timers have the same delay,
\* so the oldest fires first): for the type 'both' the combined data is
\* stored; resolve.
BenchmarkTimer ==
    /\ pc = "idle"
    /\ timers # <<>>
    /\ benchmarkData' =
          IF Head(timers) = "both"
          THEN [t \in BenchmarkTypes |->
                   IF t = "both" THEN combineBenchmarkData(benchmarkData)
                   ELSE benchmarkData[t]]
          ELSE benchmarkData
    /\ awaited' = Head(timers)
    /\ timers' = Tail(timers)
    /\ pc' = "resolved"
    /\ thrown' = "none"
    /\ UNCHANGED <<args, graph, selection, previous, totalWeight, visits,
                   solution, shown, shorVars, benchType, charts,
                   debounceVars>>

\* The rest of runBenchmark, run as the next job once the promise is
\* resolved: displayBenchmarkResults(type) fills the charts and the table
\* and writes the success message in front of what the results element
\* holds; the TypeError of an undefined dataset is caught and answered by
\* showError, which replaces the content.
DisplayBenchmarkResults ==
    /\ pc = "resolved"
    /\ IF datasetDefined(benchmarkData, awaited)
       THEN /\ charts' = dataset(benchmarkData, awaited)
            /\ shown' = <<"success">> \o shown
       ELSE /\ shown' = <<"Benchmark failed">>
            /\ UNCHANGED charts
    /\ awaited' = "none"
    /\ pc' = "idle"
    /\ UNCHANGED <<args, graph, selection, previous, totalWeight, thrown,
                   visits, solution, timers, shorVars, benchType,
                   benchmarkData, debounceVars>>

NextBench ==
    \/ UpdateBenchmarkDisplay
    \/ RunBenchmark
    \/ BenchmarkTimer
    \/ DisplayBenchmarkResults

SpecBench == InitBench /\ [][NextBench]_vars

\* ------------------------------------------- the debounced function

\* Time runs from 0 to MaxTime ticks, and wait is at most MaxWait ticks.
MaxTime == 6
MaxWait == 2

\* The argument lists the debounced function is called with.
CallArgs == {"a", "b"}

\* The state debounce(func, wait) leaves: the closure with timeout
\* undefined.
InitDebounce ==
    /\ pc = "idle"
    /\ args = NULL
    /\ graph = NULL
    /\ selection = NoSelection
    /\ previous = NoSelection
    /\ totalWeight = 0
    /\ thrown = "none"
    /\ visits = <<>>
    /\ solution = NoSelection
    /\ timers = <<>>
    /\ shown = "none"
    /\ NoShor
    /\ NoBench
    /\ clock = 0
    /\ wait \in 1..MaxWait
    /\ timeout = <<>>
    /\ lastCall = <<>>
    /\ invoked = <<>>
    /\ closed = <<>>

\* Time passes.  setTimeout promises no more than a least delay: the
\* callback of a timer that is due runs when the event loop gets to it.
Tick ==
    /\ clock < MaxTime
    /\ clock' = clock + 1
    /\ UNCHANGED <<pc, args, graph, selection, previous, totalWeight, thrown,
                   pageVars, shorVars, benchVars, wait, timeout, lastCall,
                   invoked, closed>>

\* A call opens a burst if none was made before or the last one was made
\* wait or more ago.
opensBurst == lastCall = <<>> \/ clock - lastCall[1].at >= wait

\* executedFunction(...args): clearTimeout(timeout), and a new timer with
\* the closure later, which holds the arguments of this call.
ExecutedFunction ==
    /\ \E a \in CallArgs :
          /\ timeout' = << [due |-> clock + wait, args |-> a] >>
          /\ lastCall' = << [at |-> clock, args |-> a,
                             first |-> IF opensBurst THEN a
                                       ELSE lastCall[1].first] >>
    /\ invoked' = IF opensBurst THEN <<>> ELSE invoked
    /\ closed' = IF opensBurst /\ lastCall # <<>>
                 THEN << [first |-> lastCall[1].first,
                          args |-> lastCall[1].args,
                          invoked |-> invoked,
                          cleared |-> timeout # <<>>] >>
                 ELSE closed
    /\ UNCHANGED <<pc, args, graph, selection, previous, totalWeight, thrown,
                   pageVars, shorVars, benchVars, clock, wait>>

\* later, run one tick before the timer is due.
LaterBeforeDue ==
    /\ timeout # <<>>
    /\ clock >= timeout[1].due - 1
    /\ invoked' = Append(invoked, [at |-> clock, args |-> timeout[1].args])
    /\ timeout' = <<>>
    /\ UNCHANGED <<pc, args, graph, selection, previous, totalWeight, thrown,
                   pageVars, shorVars, benchVars, clock, wait, lastCall,
                   closed>>

\* later, the callback of the pending timer, run once the timer is due:
\* clearTimeout(timeout), which finds no pending timer, and func(...args).
Later ==
    /\ timeout # <<>>
    /\ clock >= timeout[1].due
    /\ invoked' = Append(invoked, [at |-> clock, args |-> timeout[1].args])
    /\ timeout' = <<>>
    /\ UNCHANGED <<pc, args, graph, selection, previous, totalWeight, thrown,
                   pageVars, shorVars, benchVars, clock, wait, lastCall,
                   closed>>

NextDebounce ==
    \/ Tick
    \/ ExecutedFunction
    \/ Later

SpecDebounce == InitDebounce /\ [][NextDebounce]_vars

\* ------------------------------------------------------------ properties

NodeIds(g) == 0..(Len(g.nodes) - 1)

\* Some entry of the edge list joins a and b.
Joined(g, a, b) ==
    \E e \in DOMAIN g.edges : g.edges[e] = <<a, b>> \/ g.edges[e] = <<b, a>>

\* Some entry of the edge list names an identifier that no node has.
Malformed(g) ==
    \E e \in DOMAIN g.edges :
        g.edges[e][1] \notin NodeIds(g) \/ g.edges[e][2] \notin NodeIds(g)

\* The nodes other than i that the edge list joins to i.
AdjacentNodes(g, i) == { j \in NodeIds(g) \ {i} : Joined(g, i, j) }

\* C1: the selection findMWISSolution returns is an independent set: no two
\* distinct selected identifiers are joined by an entry of the edge list,
\* whatever the edge list (self-loops, repeats, entries naming no node).
C1_IndependentSet ==
    pc = "solved" =>
        \A a \in Range(selection), b \in Range(selection) :
            a # b => ~Joined(graph, a, b)

\* C1 witness: a run on a graph with edges that selected two nodes and
\* passed over another.
C1_Witness ==
    /\ pc = "solved"
    /\ graph.edges # <<>>
    /\ Len(selection) >= 2
    /\ Len(selection) < Len(graph.nodes)

\* C2 as claimed: every edge createGraph returns has both endpoints in
\* 0 .. n - 1, for every n >= 0, every p and every topology.
C2_EdgesInRange ==
    pc = "generated" =>
        \A e \in DOMAIN graph.edges :
            /\ graph.edges[e][1] \in 0..(args.n - 1)
            /\ graph.edges[e][2] \in 0..(args.n - 1)

\* C3 as claimed: no edge createGraph returns is a self-loop, for every n
\* and every topology.
C3_NoSelfLoops ==
    pc = "generated" =>
        \A e \in DOMAIN graph.edges : graph.edges[e][1] # graph.edges[e][2]

\* C4: findMWISSolution run again on the same graph returns the same array
\* as the run before, for every array the engine's sort may leave.
C4_SameSelectionAgain ==
    (pc = "solved" /\ previous # NoSelection) => selection = previous

\* C4 witness: a second run on a graph where two nodes joined by an edge have
\* the same score, so that the order the sort leaves them in decides which
\* of them is selected.
C4_Witness ==
    /\ pc = "solved"
    /\ previous # NoSelection
    /\ \E i \in DOMAIN graph.nodes, j \in DOMAIN graph.nodes :
          /\ i < j
          /\ compareScores(nodeScores(graph)[i], nodeScores(graph)[j]) = 0
          /\ Joined(graph, i - 1, j - 1)

\* C5: on the graph with no nodes the selection is empty, and on a graph with
\* no edges the selection holds every node.
C5_Boundary ==
    pc = "solved" =>
        /\ graph.nodes = <<>> => selection = <<>>
        /\ graph.edges = <<>> => Range(selection) = NodeIds(graph)

\* C5 witness: a run on a graph of several nodes and no edges.
C5_Witness ==
    /\ pc = "solved"
    /\ graph.edges = <<>>
    /\ Len(graph.nodes) >= 2

\* C6: on the path 0 - 1 - 2 - 3 with weights 1.0, 5.0, 1.0, 1.0 the run
\* selects node 1, then node 3, and the total weight of the selection is 6.0.
C6_PathScenario ==
    (pc = "solved" /\ graph = PathGraph) =>
        /\ selection = <<1, 3>>
        /\ totalWeight = 6 * One

\* C6 witness: a run on that path.
C6_Witness == pc = "solved" /\ graph = PathGraph

\* C7: in a regular graph of n >= 4 nodes every node is joined to at least
\* k = 3 other nodes (hence has at least k adjacency entries).
C7_RegularDegree ==
    (pc = "generated" /\ args.type = "regular" /\ args.n >= 4) =>
        \A i \in NodeIds(graph) : Cardinality(AdjacentNodes(graph, i)) >= RegularK

\* C7 witness: a regular graph of more than four nodes was generated.
C7_Witness ==
    /\ pc = "generated"
    /\ args.type = "regular"
    /\ args.n > 4
    /\ Len(graph.edges) = RegularK * args.n

\* C8 as claimed: every node createGraph returns has 0.5 <= weight < 2.0.
C8_WeightRange ==
    pc = "generated" =>
        \A i \in DOMAIN graph.nodes :
            Half <= graph.nodes[i].weight /\ graph.nodes[i].weight < 2 * One

\* C9 as claimed: a createGraph call with p outside [0, 1] raises
\* InvalidArgument and returns no graph.
C9_ProbabilityRejected ==
    (pc = "generated" /\ (args.p < 0 \/ args.p > 10)) =>
        thrown = "InvalidArgument" /\ graph = NULL

\* C10 as claimed: a findMWISSolution call on a graph with an edge naming an
\* identifier outside 0 .. n - 1 raises InvalidGraph and returns no selection.
C10_MalformedRejected ==
    (pc = "solved" /\ Malformed(graph)) =>
        thrown = "InvalidGraph" /\ selection = NoSelection

\* C11: findMWISSolution has no side effects: across the timer callback that
\* calls it, this.graph (its nodes, in order, with their identifiers and
\* weights, and its edge list) and this.solution are what they were.
C11_NoSideEffects ==
    [][(pc = "idle" /\ pc' = "resolved") =>
          (graph' = graph /\ solution' = solution)]_vars

\* C11 witness: the call has returned while a solution of an earlier run was
\* stored, and its sort put the nodes in another order than the graph's.
C11_Witness ==
    /\ pc = "resolved"
    /\ solution # NoSelection
    /\ selection # <<>>
    /\ \E k \in DOMAIN visits : visits[k].id # k - 1

\* C12: findMWISSolution returns on every finite graph (the call has an
\* outcome wherever it can be made), after one pass that calls the forEach
\* callback once for each node, and what it returns is an array of node
\* identifiers (the empty array for the graph with no nodes).
C12_OnePassThenReturns ==
    /\ pc = "input" =>
          \A alg \in PageAlgorithms : findMWISRuns(graph, alg) # {}
    /\ pc = "solved" =>
          /\ Len(visits) = Len(graph.nodes)
          /\ \A i \in NodeIds(graph) :
                Cardinality({ k \in DOMAIN visits : visits[k].id = i }) = 1
          /\ selection # NoSelection
          /\ Range(selection) \subseteq NodeIds(graph)

\* C12 witness: the call returned on a graph of three or more nodes with
\* edges, one of which was passed over.
C12_Witness ==
    /\ pc = "solved"
    /\ Len(graph.nodes) >= 3
    /\ Len(visits) >= 3
    /\ graph.edges # <<>>
    /\ Len(selection) < Len(graph.nodes)

\* The number of entries of the edge list that name the node i, an entry
\* [i, i] counted twice.
IncidentEntries(g, i) ==
    Cardinality({ e \in DOMAIN g.edges : g.edges[e][1] = i })
    + Cardinality({ e \in DOMAIN g.edges : g.edges[e][2] = i })

\* weight / (degree + 1) of the node with identifier id, as the pair of its
\* numerator and divisor.
ScoreOf(g, id) ==
    [weight |-> g.nodes[id + 1].weight, div |-> IncidentEntries(g, id) + 1]

\* C14: findMWISSolution visits the nodes in descending order of
\* score = weight / (degree + 1), the degree of a node being the number of
\* entries of the edge list that name it (an entry [u, u] counts twice), and
\* nodes of equal score in ascending order of identifier.
C14_VisitOrder ==
    pc = "solved" =>
        \A k \in DOMAIN visits, l \in DOMAIN visits :
            k < l =>
                LET a == ScoreOf(graph, visits[k].id)
                    b == ScoreOf(graph, visits[l].id)
                IN  \/ a.weight * b.div > b.weight * a.div
                    \/ /\ a.weight * b.div = b.weight * a.div
                       /\ visits[k].id < visits[l].id

\* C14 witness: a run over nodes of different scores and nodes of equal
\* score, in which a node of higher identifier was visited before one of
\* lower identifier.
C14_Witness ==
    /\ pc = "solved"
    /\ \E k \in DOMAIN visits, l \in DOMAIN visits :
          k < l /\ visits[k].id > visits[l].id
    /\ \E i \in NodeIds(graph), j \in NodeIds(graph) :
          /\ i # j
          /\ ScoreOf(graph, i).weight * ScoreOf(graph, j).div
               = ScoreOf(graph, j).weight * ScoreOf(graph, i).div

\* C15: in one run, a node that is in conflicts when the forEach callback
\* reaches it is not added to selected by that call or by any later one, and
\* when a call adds a node it leaves every identifier that the edge list
\* joins to that node in conflicts.
C15_ConflictsRespected ==
    pc = "solved" =>
        \A k \in DOMAIN visits :
            /\ visits[k].id \in visits[k].found =>
                  \A l \in k..Len(visits) :
                      visits[k].id \notin Range(visits[l].selected)
            /\ visits[k].id \notin visits[k].found =>
                  /\ visits[k].id \in Range(visits[k].selected)
                  /\ \A e \in DOMAIN graph.edges :
                        /\ graph.edges[e][1] = visits[k].id =>
                              graph.edges[e][2] \in visits[k].conflicts
                        /\ graph.edges[e][2] = visits[k].id =>
                              graph.edges[e][1] \in visits[k].conflicts

\* C15 witness: a run in which a node with two neighbours was added and a
\* later call found its node in conflicts.
C15_Witness ==
    /\ pc = "solved"
    /\ \E k \in DOMAIN visits, l \in DOMAIN visits :
          /\ k < l
          /\ visits[k].id \notin visits[k].found
          /\ Cardinality(AdjacentNodes(graph, visits[k].id)) >= 2
          /\ visits[l].id \in visits[l].found

\* C13: for every integer N >= 2, calculateFactors(N) returns two numbers
\* whose product is N; for 15, 21 and 35 both numbers are greater than 1.
C13_ProductIsN ==
    pc = "factored" =>
        /\ Len(factors) = 2
        /\ factors[1] * factors[2] = number
        /\ number \in {15, 21, 35} => (factors[1] > 1 /\ factors[2] > 1)

\* C13 witness: the call returned the stored pair of 561, whose second
\* number is not a prime.
C13_Witness ==
    /\ pc = "factored"
    /\ number = 561
    /\ factors = <<3, 187>>

\* N has no divisor strictly between 1 and N.
IsPrime(N) == N >= 2 /\ \A d \in 2..(N - 1) : N % d # 0

\* C19: for N >= 2, calculateFactors(N) returns [1, N] exactly when N is
\* prime, and for a composite N both numbers it returns are strictly between
\* 1 and N.
C19_PrimeIffTrivial ==
    pc = "factored" =>
        /\ factors = <<1, number>> <=> IsPrime(number)
        /\ ~IsPrime(number) =>
              /\ 1 < factors[1] /\ factors[1] < number
              /\ 1 < factors[2] /\ factors[2] < number

\* C19 witness: the call returned on the square of a prime, where the loop
\* test holds with equality for the only divisor.
C19_Witness ==
    /\ pc = "factored"
    /\ number = 49
    /\ factors = <<7, 7>>

\* C17: the regular topology gives every node i the entries
\* (i, (i + 1) mod n), (i, (i + 2) mod n), (i, (i + 3) mod n) and no other
\* entry with i in first place: three entries per node, 3n in all.
C17_RegularEdges ==
    (pc = "generated" /\ args.type = "regular") =>
        /\ Len(graph.edges) = 3 * args.n
        /\ \A i \in 0..(args.n - 1) :
              LET out == { e \in DOMAIN graph.edges : graph.edges[e][1] = i }
              IN  /\ Cardinality(out) = 3
                  /\ \A j \in 1..3 :
                        \E e \in out : graph.edges[e][2] = (i + j) % args.n
                  /\ \A e \in out :
                        \E j \in 1..3 : graph.edges[e][2] = (i + j) % args.n
        /\ \A e \in DOMAIN graph.edges : graph.edges[e][1] \in 0..(args.n - 1)

\* C17 witness: a regular graph of the largest size was generated, with an
\* entry that wraps around.
C17_Witness ==
    /\ pc = "generated"
    /\ args.type = "regular"
    /\ args.n = MaxNodes
    /\ \E e \in DOMAIN graph.edges : graph.edges[e][2] < graph.edges[e][1]

\* The number of the first upTo entries of the edge list that name node t.
DegreeAmong(g, upTo, t) ==
    Cardinality({ e \in 1..upTo : g.edges[e][1] = t })
    + Cardinality({ e \in 1..upTo : g.edges[e][2] = t })

\* C18: the scale-free topology with n >= 3 gives first the complete graph
\* on 0, 1, 2 and then, for i = 3 .. n - 1 in order, two entries (i, t) with
\* 0 <= t < i, t a node named by an earlier entry, whatever the random
\* values: the weighted draw stops at an existing node.
C18_ScaleFreeAttachment ==
    (pc = "generated" /\ args.type = "scale-free" /\ args.n >= 3) =>
        /\ Len(graph.edges) = 3 + 2 * (args.n - 3)
        /\ SubSeq(graph.edges, 1, 3) = << <<0, 1>>, <<0, 2>>, <<1, 2>> >>
        /\ \A i \in 3..(args.n - 1) :
              \A j \in 1..2 :
                  LET before == 3 + 2 * (i - 3)
                      t == graph.edges[before + j][2]
                  IN  /\ graph.edges[before + j][1] = i
                      /\ 0 <= t /\ t < i
                      /\ DegreeAmong(graph, before, t) > 0

\* C18 witness: a scale-free graph of the largest size was generated in which
\* one draw stopped at the first node and one at the last existing node.
C18_Witness ==
    /\ pc = "generated"
    /\ args.type = "scale-free"
    /\ args.n = MaxNodes
    /\ \E e \in 4..Len(graph.edges) : graph.edges[e][2] = 0
    /\ \E e \in 4..Len(graph.edges) : graph.edges[e][2] = graph.edges[e][1] - 1

\* C16: under every interleaving of generate-graph requests, solve requests
\* and the timer callbacks of solve requests, a stored solution (this.solution
\* not null) is one findMWISSolution computes from the graph stored now, and
\* so an independent set of it; and this.graph is not replaced between the
\* computation of a selection and its display.
C16_SolutionOfCurrentGraph ==
    /\ [](solution # NoSelection =>
            /\ \E alg \in PageAlgorithms : solution \in findMWISSolution(graph, alg)
            /\ Range(solution) \subseteq NodeIds(graph)
            /\ \A a \in Range(solution), b \in Range(solution) :
                  a # b => ~Joined(graph, a, b))
    /\ [][pc = "resolved" => graph' = graph]_vars

\* C16 witness: the timer callback of a solve request has computed a
\* selection of two or more nodes on a graph that a generate request stored
\* while the request was waiting: the results of an earlier request are
\* still shown, and the solution they stored has been reset.
C16_Witness ==
    /\ pc = "resolved"
    /\ shown = "success"
    /\ solution = NoSelection
    /\ Len(selection) >= 2
    /\ Len(graph.nodes) # InitialNodeCount
    /\ graph.edges # <<>>

\* C20: runFactorization called while the number read is less than 2 shows
\* the error 'Please enter a number greater than 1' and returns: the loading
\* state is not entered, no simulated factorization is scheduled, and the
\* circuit-info fields and the visualization are left as they were.
C20_BelowTwoRejected ==
    [][(RunFactorization /\ entered < 2) =>
          /\ shown' = "Please enter a number greater than 1"
          /\ timers' = timers
          /\ pc' = pc
          /\ circuit' = circuit
          /\ plotted' = plotted]_vars

\* C20 witness: the error is shown for the number 1 while an earlier request
\* waits for its timer and the results of another have been plotted.
C20_Witness ==
    /\ shown = "Please enter a number greater than 1"
    /\ entered = 1
    /\ timers # <<>>
    /\ plotted # <<>>
    /\ circuit = <<1>>

\* C21: on a graph whose edge entries all name nodes, the selection
\* findMWISSolution returns is a maximal independent set: every node outside
\* it is joined to a node in it, it holds identifiers of nodes only, none
\* twice, and no two of them are joined.
C21_MaximalIndependentSet ==
    (pc = "solved" /\ ~Malformed(graph)) =>
        /\ \A i \in NodeIds(graph) \ Range(selection) :
              \E s \in Range(selection) : s # i /\ Joined(graph, i, s)
        /\ Range(selection) \subseteq NodeIds(graph)
        /\ Cardinality(Range(selection)) = Len(selection)
        /\ \A a \in Range(selection), b \in Range(selection) :
              a # b => ~Joined(graph, a, b)

\* C21 witness: a run on a graph of well-formed edges, one of them a
\* self-loop, that passed over two nodes.
C21_Witness ==
    /\ pc = "solved"
    /\ ~Malformed(graph)
    /\ \E e \in DOMAIN graph.edges : graph.edges[e][1] = graph.edges[e][2]
    /\ Len(selection) + 2 <= Len(graph.nodes)

\* C22: the selection findMWISSolution returns does not depend on its
\* algorithm argument: on the graph the timer callback has just run it on,
\* each of qaoa, qft-walk, hybrid, classical and a value that is none of them
\* has the same outcomes, the selection returned among them.
C22_AlgorithmNotRead ==
    pc = "resolved" =>
        LET classical == findMWISSolution(graph, "classical")
        IN  /\ selection \in classical
            /\ \A alg \in Algorithms : findMWISSolution(graph, alg) = classical

\* C22 witness: the callback has run on a generated graph with edges and
\* nodes of different scores, selecting some nodes and passing over others.
C22_Witness ==
    /\ pc = "resolved"
    /\ Len(graph.nodes) # InitialNodeCount
    /\ ~drawGraphThrows(graph)
    /\ graph.edges # <<>>
    /\ selection # <<>>
    /\ Len(selection) < Len(graph.nodes)
    /\ \E i \in NodeIds(graph), j \in NodeIds(graph) :
          ScoreOf(graph, i).weight * ScoreOf(graph, j).div
            > ScoreOf(graph, j).weight * ScoreOf(graph, i).div

\* The pair trial division alone returns for N: [d, N / d] for the least
\* divisor d of N with 2 <= d and d * d <= N, and [1, N] if there is none.
TrialDivisionAlone(N) ==
    LET divisors == { d \in 2..N : d * d <= N /\ N % d = 0 }
    IN  IF divisors = {} THEN <<1, N>>
        ELSE LET d == CHOOSE d \in divisors : \A c \in divisors : d <= c
             IN  <<d, N \div d>>

\* C25: calculateFactors returns for every N >= 2, the six numbers of its
\* lookup table among them, the pair that trial division alone returns.
C25_TableIsTrialDivision ==
    pc = "factored" => factors = TrialDivisionAlone(number)

\* C25 witness: the call returned on the largest number of the table.
C25_Witness ==
    /\ pc = "factored"
    /\ number = 2047
    /\ factors = <<23, 89>>

\* C23: once every pending timer callback of ShorSimulator has run and its
\* continuation with it, the results element shows the outcome of the most
\* recently issued runFactorization or demoRSABreaking request.
C23_LatestRequestShown ==
    (pc = "idle" /\ timers = <<>>) => shownLatest

\* C24: in every reachable state of BenchmarkManager the call of
\* updateBenchmarkDisplay has found a dataset for the selected type, 'both'
\* included when no benchmark of type 'both' has been run: it has not failed
\* on an undefined dataset.
C24_DatasetDefined ==
    thrown # "TypeError"

\* 2^b = v, by halving v (the power itself exceeds 32 bits for b >= 31).
RECURSIVE IsTwoToThe(_, _)
IsTwoToThe(v, b) ==
    IF b = 0 THEN v = 1
    ELSE v > 0 /\ v % 2 = 0 /\ IsTwoToThe(v \div 2, b - 1)

\* C26: the row generateShorBenchmarkData makes for each bit width b of
\* 4, 8, 16, 32, 64 is labelled N = 2^b.
C26_LabelIsPowerOfTwo ==
    \A i \in 1..5 :
        LET b == <<4, 8, 16, 32, 64>>[i]
        IN  /\ benchmarkData.shor[i].size.text = "N="
            /\ IsTwoToThe(benchmarkData.shor[i].size.number, b)

\* First half of C27: func is invoked with the arguments of the most recent
\* call, wait or more after that call, and no call is made in between.
InvokedAfterQuietWait ==
    \A k \in DOMAIN invoked :
        /\ lastCall # <<>>
        /\ invoked[k].args = lastCall[1].args
        /\ invoked[k].at >= lastCall[1].at + wait

\* C27 as stated: func is invoked only once wait has passed since the most
\* recent call with no call in between, and every burst of calls each less
\* than wait apart has produced, when the next burst begins, exactly one
\* invocation of func, made with the arguments of its last call.
C27_ExactlyOncePerBurst ==
    /\ InvokedAfterQuietWait
    /\ closed # <<>> =>
          /\ Len(closed[1].invoked) = 1
          /\ closed[1].invoked[1].args = closed[1].args

\* C27 amended: func is invoked only once wait has passed since the most
\* recent call with no call in between; a burst produces at most one
\* invocation, made with the arguments of its last call, and produces none
\* exactly when the first call of the next burst found its timer pending and
\* cleared it.
C27_AtMostOncePerBurst ==
    /\ InvokedAfterQuietWait
    /\ Len(invoked) <= 1
    /\ closed # <<>> =>
          IF closed[1].cleared
          THEN closed[1].invoked = <<>>
          ELSE /\ Len(closed[1].invoked) = 1
               /\ closed[1].invoked[1].args = closed[1].args

\* C27 witness: a burst of calls with different arguments has produced one
\* invocation, with the arguments of its last call, and the burst after it
\* has produced its own.
C27_Witness ==
    /\ closed # <<>>
    /\ closed[1].first # closed[1].args
    /\ Len(closed[1].invoked) = 1
    /\ closed[1].invoked[1].args = closed[1].args
    /\ Len(invoked) = 1

=============================================================================
